---- MODULE Spec2Model ----
(***************************************************************************)
(* CANONIC EMAIL: the device-code authentication, send and audit pipeline  *)
(* of email.py, the stand-alone auth.py script and the email.audit         *)
(* validator (validators/email_audit.py).                                  *)
(*                                                                         *)
(* Text is modelled as sequences of one-character strings, so that         *)
(* split('@'), strftime, isoformat, fromisoformat and the filename sort    *)
(* are computed the way the Python code computes them.                     *)
(***************************************************************************)
EXTENDS Integers, Sequences, FiniteSets, TLC

\* ------------------------------------------------------------------ bounds

\* Clock ticks the model lets pass (the clock is read by datetime.utcnow()).
MaxTick == 2

\* Sub-second resolution of the modelled clock: ticks per UTC second.
TicksPerSecond == 2

\* Number of `send` invocations in one behaviour.
MaxSends == 2

\* ------------------------------------------------------------------- text

DigitChars == <<"0", "1", "2", "3", "4", "5", "6", "7", "8", "9">>

Digits == {DigitChars[i] : i \in 1..10}

DigitVal(c) == (CHOOSE i \in 1..10 : DigitChars[i] = c) - 1

IsDigits(s) == \A i \in DOMAIN s : s[i] \in Digits

RECURSIVE Num(_)
Num(s) == IF s = <<>> THEN 0
          ELSE 10 * Num(SubSeq(s, 1, Len(s) - 1)) + DigitVal(s[Len(s)])

\* n as exactly w decimal digits (strftime's %H, %M, %S; isoformat's fields).
RECURSIVE Pad(_, _)
Pad(n, w) == IF w = 0 THEN <<>>
             ELSE Append(Pad(n \div 10, w - 1), DigitChars[(n % 10) + 1])

\* Code points of the characters the model's texts are made of.
Ord(c) ==
    CASE c = " " -> 32
      [] c = "+" -> 43
      [] c = "-" -> 45
      [] c = "." -> 46
      [] c \in Digits -> 48 + DigitVal(c)
      [] c = ":" -> 58
      [] c = "@" -> 64
      [] c = "H" -> 72
      [] c = "T" -> 84
      [] c = "Z" -> 90
      [] c = "a" -> 97
      [] c = "b" -> 98
      [] c = "i" -> 105
      [] c = "j" -> 106
      [] c = "n" -> 110
      [] c = "o" -> 111
      [] c = "s" -> 115
      [] c = "x" -> 120
      [] c = "y" -> 121

\* Python's str < str: the first differing character decides, a proper prefix
\* is smaller.
RECURSIVE StrLess(_, _)
StrLess(s, t) ==
    IF t = <<>> THEN FALSE
    ELSE IF s = <<>> THEN TRUE
    ELSE IF s[1] # t[1] THEN Ord(s[1]) < Ord(t[1])
    ELSE StrLess(Tail(s), Tail(t))

\* s.split(sep)[0]: the text before the first sep, all of s when there is none.
RECURSIVE SplitFirst(_, _)
SplitFirst(s, sep) ==
    IF s = <<>> \/ s[1] = sep THEN <<>>
    ELSE <<s[1]>> \o SplitFirst(Tail(s), sep)

\* s.replace(c, by) for a one-character c.
RECURSIVE Replace(_, _, _)
Replace(s, c, by) ==
    IF s = <<>> THEN <<>>
    ELSE (IF s[1] = c THEN by ELSE <<s[1]>>) \o Replace(Tail(s), c, by)

\* Index of the first character of s that is in cs, 0 when there is none.
RECURSIVE FindFirst(_, _, _)
FindFirst(s, cs, i) ==
    IF i > Len(s) THEN 0
    ELSE IF s[i] \in cs THEN i
    ELSE FindFirst(s, cs, i + 1)

\* ------------------------------------------------------------- the clock

\* The instant of tick 0, 2024-01-01T00:00:00 UTC; the model stays within
\* that day.
EpochDate == <<"2", "0", "2", "4", "-", "0", "1", "-", "0", "1">>

EpochDateCompact == <<"2", "0", "2", "4", "0", "1", "0", "1">>

SecondOf(tick) == tick \div TicksPerSecond

MicrosOf(tick) == (tick % TicksPerSecond) * (1000000 \div TicksPerSecond)

\* datetime.isoformat(): the microseconds are printed only when not zero.
IsoFormat(tick) ==
    LET s == SecondOf(tick)
        us == MicrosOf(tick)
    IN  EpochDate \o <<"T">> \o Pad(s \div 3600, 2) \o <<":">>
          \o Pad((s \div 60) % 60, 2) \o <<":">> \o Pad(s % 60, 2)
          \o (IF us = 0 THEN <<>> ELSE <<".">> \o Pad(us, 6))

\* datetime.strftime('%Y%m%d-%H%M%S')
StrfTime(tick) ==
    LET s == SecondOf(tick)
    IN  EpochDateCompact \o <<"-">> \o Pad(s \div 3600, 2)
          \o Pad((s \div 60) % 60, 2) \o Pad(s % 60, 2)

\* ---------------------------------------------------- datetime.fromisoformat

DaysInMonth(y, m) ==
    IF m = 2
      THEN (IF y % 4 = 0 /\ (y % 100 # 0 \/ y % 400 = 0) THEN 29 ELSE 28)
      ELSE IF m \in {4, 6, 9, 11} THEN 30 ELSE 31

\* YYYY-MM-DD with the ranges the datetime constructor enforces.
IsoDateOK(d) ==
    /\ Len(d) = 10
    /\ IsDigits(SubSeq(d, 1, 4)) /\ d[5] = "-"
    /\ IsDigits(SubSeq(d, 6, 7)) /\ d[8] = "-"
    /\ IsDigits(SubSeq(d, 9, 10))
    /\ LET y == Num(SubSeq(d, 1, 4))
           m == Num(SubSeq(d, 6, 7))
           dd == Num(SubSeq(d, 9, 10))
       IN  y >= 1 /\ m \in 1..12 /\ dd >= 1 /\ dd <= DaysInMonth(y, m)

\* HH[:MM[:SS]] with each field below its limit.
IsoHmsOK(t) ==
    /\ Len(t) \in {2, 5, 8}
    /\ IsDigits(SubSeq(t, 1, 2)) /\ Num(SubSeq(t, 1, 2)) < 24
    /\ Len(t) >= 5 =>
         t[3] = ":" /\ IsDigits(SubSeq(t, 4, 5)) /\ Num(SubSeq(t, 4, 5)) < 60
    /\ Len(t) >= 8 =>
         t[6] = ":" /\ IsDigits(SubSeq(t, 7, 8)) /\ Num(SubSeq(t, 7, 8)) < 60

\* HH[:MM[:SS[.fff[fff]]]]
IsoClockOK(t) ==
    LET dot == FindFirst(t, {"."}, 1)
    IN  IF dot = 0 THEN IsoHmsOK(t)
        ELSE /\ dot = 9
             /\ IsoHmsOK(SubSeq(t, 1, 8))
             /\ Len(t) - dot \in {3, 6}
             /\ IsDigits(SubSeq(t, dot + 1, Len(t)))

\* The time part: a clock, then an optional +HH:MM[:SS[.ffffff]] offset.
IsoTimeOK(t) ==
    LET sign == FindFirst(t, {"+", "-"}, 1)
    IN  IF sign = 0 THEN IsoClockOK(t)
        ELSE /\ IsoClockOK(SubSeq(t, 1, sign - 1))
             /\ LET off == SubSeq(t, sign + 1, Len(t))
                IN  /\ Len(off) >= 5
                    /\ IsoClockOK(off)

\* Whether datetime.fromisoformat(s) returns (TRUE) or raises ValueError:
\* YYYY-MM-DD[*HH[:MM[:SS[.fff[fff]]]][+HH:MM[:SS[.ffffff]]]].
FromIsoFormatOK(s) ==
    /\ Len(s) >= 10
    /\ IsoDateOK(SubSeq(s, 1, 10))
    /\ Len(s) > 10 => Len(s) >= 13 /\ IsoTimeOK(SubSeq(s, 12, Len(s)))

\* ------------------------------------------------------------- the inputs

Hi == <<"H", "i">>

\* --to values: the empty string (argparse accepts --to ""), two addresses
\* that share the local part "a", and one with the local part "b".
AtX == <<"a", "@", "x">>

AtY == <<"a", "@", "y">>

BtX == <<"b", "@", "x">>

Recipients == {<<>>, AtX, AtY, BtX}

Subjects == {<<>>, Hi}

\* The accounts that can approve a device-code exchange.
Users == {"u1", "u2"}

\* setup()'s two prompts, each possibly answered with an empty line.
Answers == {"", "id"}

\* response.status_code
StatusCodes == {202, 401, 500}

\* Python values a context field can hold.
Str(s) == [kind |-> "str", val |-> s]

IntV(n) == [kind |-> "int", val |-> n]

\* bool(v): an empty string and 0 are falsy.
Truthy(v) == IF v.kind = "str" THEN v.val # <<>> ELSE v.val # 0

\* ------------------------------------------------ validators/email_audit.py

\* The required fields asked for in another order.
required_reordered == <<"subject", "to", "timestamp">>

required == <<"to", "subject", "timestamp">>

\* The first required field that is absent or falsy, "" when there is none.
RECURSIVE FirstMissing(_, _)
FirstMissing(context, i) ==
    IF i > Len(required) THEN ""
    ELSE IF required[i] \notin DOMAIN context \/ ~Truthy(context[required[i]])
      THEN required[i]
    ELSE FirstMissing(context, i + 1)

\* datetime.fromisoformat(context["timestamp"].replace("Z", "+00:00")) returns;
\* an int has no .replace (AttributeError), a bad text raises ValueError.
TimestampParses(v) ==
    /\ v.kind = "str"
    /\ FromIsoFormatOK(Replace(v.val, "Z", <<"+", "0", "0", ":", "0", "0">>))

\* validate(context), with sent_dir.exists() as dirExists.
validate(context, dirExists) ==
    IF FirstMissing(context, 1) # ""
      THEN [status |-> "fail",
            reason |-> <<"Missing required field: ", FirstMissing(context, 1)>>]
    ELSE IF ~TimestampParses(context["timestamp"])
      THEN [status |-> "fail", reason |-> <<"Invalid timestamp format">>]
    ELSE IF ~dirExists
      THEN [status |-> "fail", reason |-> <<"Audit directory does not exist">>]
    ELSE [status |-> "pass", reason |-> <<"Audit trail ready">>]

\* ------------------------------------------------------------------ state

VARIABLES
    CONFIG_FILE,  \* config.json: <<>> when absent, else <<the saved config>>
    TOKEN_CACHE,  \* .token_cache.json: <<>> when absent, else <<its accounts>>
    sentExists,   \* whether the sent/ directory exists
    sentFiles,    \* sent/*.json: file name -> the log entry it holds
    now,          \* the clock datetime.utcnow() reads, in ticks
    pc,           \* where the running command stands; "idle" when none runs
    to,           \* send_email's to
    subject,      \* send_email's subject
    cache,        \* get_access_token's in-memory token cache (its accounts)
    token,        \* the access token send_email holds, "" for None
    response,     \* response.status_code, 0 before the POST
    result,       \* what the command reported: send_email's return value
    posts,        \* requests.post calls of the running send_email
    log_file,     \* send_email's log_file
    sent0,        \* sentFiles when the running send_email was called
    cache0,       \* TOKEN_CACHE when the running send_email was called
    authed,       \* a device-code exchange succeeded and no logout followed
    priorAuth,    \* authed, as it was when the running send_email was called
    silent,       \* acquire_token_silent of the running call: its outcome
    flows,        \* initiate_device_flow calls of the running get_access_token
    sends,        \* send_email calls so far
    written,      \* every log entry written so far, with its file name
    lastCmd,      \* the last command started
    logOut,       \* what the last `log` command listed
    gate          \* the last validate call: <<>> or <<its context and result>>

vars == <<CONFIG_FILE, TOKEN_CACHE, sentExists, sentFiles, now, pc, to,
          subject, cache, token, response, result, posts, log_file, sent0,
          cache0, authed, priorAuth, silent, flows, sends, written, lastCmd,
          logOut, gate>>

\* send_email's and get_access_token's locals, and the bookkeeping of the call.
callVars == <<to, subject, cache, token, response, posts, log_file, sent0,
              cache0, priorAuth, silent, flows>>

EmptyDir == [f \in {} |-> <<>>]

Init ==
    /\ CONFIG_FILE = <<>>
    /\ TOKEN_CACHE = <<>>
    /\ sentExists = FALSE
    /\ sentFiles = EmptyDir
    /\ now = 0
    /\ pc = "idle"
    /\ to = <<>>
    /\ subject = <<>>
    /\ cache = {}
    /\ token = ""
    /\ response = 0
    /\ result = "none"
    /\ posts = 0
    /\ log_file = <<>>
    /\ sent0 = EmptyDir
    /\ cache0 = <<>>
    /\ authed = FALSE
    /\ priorAuth = FALSE
    /\ silent = "not_tried"
    /\ flows = 0
    /\ sends = 0
    /\ written = <<>>
    /\ lastCmd = "none"
    /\ logOut = <<>>
    /\ gate = <<>>

\* ---------------------------------------------------------------- email.py

LogLimit == 20

Min(a, b) == IF a < b THEN a ELSE b

\* ensure_dirs(), the first statement of main(): sent/ exists afterwards.
ensure_dirs == TRUE

\* An application built on an empty cache, the persisted blob not read.
get_msal_app_fresh == {}

\* get_msal_app(config): the cache the application is built on, the accounts
\* of the persisted blob when there is one, an empty cache otherwise.
get_msal_app == IF TOKEN_CACHE # <<>> THEN TOKEN_CACHE[1] ELSE {}

\* What the identity provider answers to the device-code exchange.
FlowOutcomes ==
    {[kind |-> "approved", user |-> u] : u \in Users}
      \cup {[kind |-> "denied", user |-> ""], [kind |-> "expired", user |-> ""]}

\* The in-memory cache after acquire_token_by_device_flow.
CacheAfterFlow(outcome) ==
    IF outcome.kind = "approved" THEN cache \cup {outcome.user} ELSE cache

\* The cache file written whatever the exchange answered.
TokenCacheAlwaysWritten(outcome) == <<CacheAfterFlow(outcome)>>

\* .token_cache.json after get_access_token's device-code branch: written
\* with the serialized cache when the result holds an access token.
TokenCacheAfterFlow(outcome) ==
    IF outcome.kind = "approved"
      THEN <<CacheAfterFlow(outcome)>>
      ELSE TOKEN_CACHE

\* The status code not tested: every answer is logged as a send.
AfterPostAlwaysLog(status) == "log"

\* Where send_email goes after the POST: to the log on 202, else it returns.
AfterPost(status) == IF status = 202 THEN "log" ELSE "done"

\* The file name send_email logs under.
LogFileName(tick, recipient) ==
    StrfTime(tick) \o <<"-">> \o SplitFirst(recipient, "@")
      \o <<".", "j", "s", "o", "n">>

\* The entry send_email logs.
LogEntry(tick, recipient, subj) ==
    [timestamp |-> IsoFormat(tick) \o <<"Z">>,
     to |-> recipient,
     subject |-> subj,
     status |-> "sent",
     outlook |-> TRUE]

\* The write left out: sent/ stays as it is.
LoggedFilesSkipped(name, entry) == sentFiles

\* sent/ after log_file.write_text(...): the file is created or overwritten.
LoggedFiles(name, entry) ==
    [f \in DOMAIN sentFiles \cup {name} |->
        IF f = name THEN entry ELSE sentFiles[f]]

\* The unlink left out: the cache file stays.
TokenCacheKept == TOKEN_CACHE

\* .token_cache.json after the logout command.
TokenCacheAfterLogout == IF TOKEN_CACHE # <<>> THEN <<>> ELSE TOKEN_CACHE

\* sorted(names, reverse=True)
RECURSIVE SortedReverse(_)
SortedReverse(names) ==
    IF names = {} THEN <<>>
    ELSE LET top == CHOOSE x \in names :
                      \A y \in names \ {x} : StrLess(y, x)
         IN  <<top>> \o SortedReverse(names \ {top})

\* view_log(): the entries of the first LogLimit files, names sorted downwards.
view_log ==
    LET logs == SortedReverse(DOMAIN sentFiles)
    IN  [i \in 1..Min(Len(logs), LogLimit) |-> sentFiles[logs[i]]]

\* main(), command `send`, up to get_access_token's look into the cache.
MainSend(t, s) ==
    /\ pc = "idle"
    /\ sends < MaxSends
    /\ sentExists' = ensure_dirs
    /\ lastCmd' = "send"
    /\ logOut' = <<>>
    /\ IF CONFIG_FILE = <<>> \/ s = <<>>
         THEN /\ result' = "usage"
              /\ UNCHANGED <<pc, callVars, sends>>
         ELSE /\ to' = t
              /\ subject' = s
              /\ cache' = get_msal_app
              /\ pc' = IF get_msal_app # {} THEN "silent" ELSE "initiate"
              /\ token' = ""
              /\ response' = 0
              /\ result' = "none"
              /\ posts' = 0
              /\ log_file' = <<>>
              /\ sent0' = sentFiles
              /\ cache0' = TOKEN_CACHE
              /\ priorAuth' = authed
              /\ silent' = "not_tried"
              /\ flows' = 0
              /\ sends' = sends + 1
    /\ UNCHANGED <<CONFIG_FILE, TOKEN_CACHE, sentFiles, now, authed, written,
                   gate>>

\* get_access_token: acquire_token_silent for the first account.
AcquireSilent(got) ==
    /\ pc = "silent"
    /\ silent' = IF got THEN "token" ELSE "none"
    /\ token' = IF got THEN "token" ELSE ""
    /\ pc' = IF got THEN "post" ELSE "initiate"
    /\ UNCHANGED <<CONFIG_FILE, TOKEN_CACHE, sentExists, sentFiles, now, to,
                   subject, cache, response, result, posts, log_file, sent0,
                   cache0, authed, priorAuth, flows, sends, written, lastCmd,
                   logOut, gate>>

\* get_access_token: initiate_device_flow; without a user code it returns
\* None and send_email returns False.
InitiateFlow(hasCode) ==
    /\ pc = "initiate"
    /\ flows' = flows + 1
    /\ pc' = IF hasCode THEN "exchange" ELSE "done"
    /\ result' = IF hasCode THEN result ELSE "False"
    /\ UNCHANGED <<CONFIG_FILE, TOKEN_CACHE, sentExists, sentFiles, now, to,
                   subject, cache, token, response, posts, log_file, sent0,
                   cache0, authed, priorAuth, silent, sends, written, lastCmd,
                   logOut, gate>>

\* get_access_token: acquire_token_by_device_flow and what follows it.
DeviceFlow(outcome) ==
    /\ pc = "exchange"
    /\ cache' = CacheAfterFlow(outcome)
    /\ TOKEN_CACHE' = TokenCacheAfterFlow(outcome)
    /\ token' = IF outcome.kind = "approved" THEN "token" ELSE ""
    /\ authed' = IF outcome.kind = "approved" THEN TRUE ELSE authed
    /\ pc' = IF outcome.kind = "approved" THEN "post" ELSE "done"
    /\ result' = IF outcome.kind = "approved" THEN result ELSE "False"
    /\ UNCHANGED <<CONFIG_FILE, sentExists, sentFiles, now, to, subject,
                   response, posts, log_file, sent0, cache0, priorAuth, silent,
                   flows, sends, written, lastCmd, logOut, gate>>

\* send_email: requests.post and the test of its status code.
Post(status) ==
    /\ pc = "post"
    /\ posts' = posts + 1
    /\ response' = status
    /\ pc' = AfterPost(status)
    /\ result' = IF AfterPost(status) = "done" THEN "False" ELSE result
    /\ UNCHANGED <<CONFIG_FILE, TOKEN_CACHE, sentExists, sentFiles, now, to,
                   subject, cache, token, log_file, sent0, cache0, authed,
                   priorAuth, silent, flows, sends, written, lastCmd, logOut,
                   gate>>

\* send_email: the log entry and its file. The clock is read twice, for the
\* entry and for the file name, and may advance in between; write_text
\* either writes the file or raises OSError, which nothing catches.
WriteLog(d, written_ok) ==
    /\ pc = "log"
    /\ now + d <= MaxTick
    /\ now' = now + d
    /\ log_file' = LogFileName(now + d, to)
    /\ pc' = "done"
    /\ IF written_ok
         THEN /\ sentFiles' =
                   LoggedFiles(LogFileName(now + d, to),
                               LogEntry(now, to, subject))
              /\ written' = Append(written,
                   [file |-> LogFileName(now + d, to),
                    entry |-> LogEntry(now, to, subject)])
              /\ result' = "True"
         ELSE /\ result' = "raised"
              /\ UNCHANGED <<sentFiles, written>>
    /\ UNCHANGED <<CONFIG_FILE, TOKEN_CACHE, sentExists, to, subject, cache,
                   token, response, posts, sent0, cache0, authed, priorAuth,
                   silent, flows, sends, lastCmd, logOut, gate>>

\* The process of the send command ends.
Exit ==
    /\ pc = "done"
    /\ pc' = "idle"
    /\ to' = <<>>
    /\ subject' = <<>>
    /\ cache' = {}
    /\ token' = ""
    /\ response' = 0
    /\ result' = "none"
    /\ posts' = 0
    /\ log_file' = <<>>
    /\ sent0' = EmptyDir
    /\ cache0' = <<>>
    /\ priorAuth' = FALSE
    /\ silent' = "not_tried"
    /\ flows' = 0
    /\ UNCHANGED <<CONFIG_FILE, TOKEN_CACHE, sentExists, sentFiles, now,
                   authed, sends, written, lastCmd, logOut, gate>>

\* main(), command `logout`.
Logout ==
    /\ pc = "idle"
    /\ sentExists' = ensure_dirs
    /\ TOKEN_CACHE' = TokenCacheAfterLogout
    /\ authed' = FALSE
    /\ result' = "ok"
    /\ lastCmd' = "logout"
    /\ logOut' = <<>>
    /\ UNCHANGED <<CONFIG_FILE, sentFiles, now, pc, callVars, sends, written,
                   gate>>

\* main(), command `log`.
Log ==
    /\ pc = "idle"
    /\ sentExists' = ensure_dirs
    /\ logOut' = view_log
    /\ result' = "ok"
    /\ lastCmd' = "log"
    /\ UNCHANGED <<CONFIG_FILE, TOKEN_CACHE, sentFiles, now, pc, callVars,
                   authed, sends, written, gate>>

\* main(), command `templates`.
Templates ==
    /\ pc = "idle"
    /\ sentExists' = ensure_dirs
    /\ logOut' = <<>>
    /\ result' = "ok"
    /\ lastCmd' = "templates"
    /\ UNCHANGED <<CONFIG_FILE, TOKEN_CACHE, sentFiles, now, pc, callVars,
                   authed, sends, written, gate>>

\* main(), command `setup`: the config is saved when both answers are given.
Setup(client_id, tenant_id) ==
    /\ pc = "idle"
    /\ sentExists' = ensure_dirs
    /\ CONFIG_FILE' =
         IF client_id # "" /\ tenant_id # ""
           THEN <<[client_id |-> client_id, tenant_id |-> tenant_id]>>
           ELSE CONFIG_FILE
    /\ logOut' = <<>>
    /\ result' = "ok"
    /\ lastCmd' = "setup"
    /\ UNCHANGED <<TOKEN_CACHE, sentFiles, now, pc, callVars, authed, sends,
                   written, gate>>

\* ----------------------------------------------------------------- auth.py

\* The script from its first line to its last: it needs config.json, builds
\* the application on a fresh cache, and writes the cache file when the
\* exchange yields an access token.
AuthPy(outcome) ==
    /\ pc = "idle"
    /\ CONFIG_FILE # <<>>
    /\ TOKEN_CACHE' =
         IF outcome.kind = "approved" THEN <<{outcome.user}>> ELSE TOKEN_CACHE
    /\ logOut' = <<>>
    /\ result' = IF outcome.kind = "approved" THEN "ok" ELSE "failed"
    /\ lastCmd' = "auth"
    /\ UNCHANGED <<CONFIG_FILE, sentExists, sentFiles, now, pc, callVars,
                   authed, sends, written, gate>>

\* ------------------------------------------------------------------ time

Tick ==
    /\ pc = "idle"
    /\ now < MaxTick
    /\ now' = now + 1
    /\ UNCHANGED <<CONFIG_FILE, TOKEN_CACHE, sentExists, sentFiles, pc,
                   callVars, result, authed, sends, written, lastCmd, logOut,
                   gate>>

Next ==
    \/ \E t \in Recipients, s \in Subjects : MainSend(t, s)
    \/ \E got \in BOOLEAN : AcquireSilent(got)
    \/ \E hasCode \in BOOLEAN : InitiateFlow(hasCode)
    \/ \E outcome \in FlowOutcomes : DeviceFlow(outcome)
    \/ \E status \in StatusCodes : Post(status)
    \/ \E d \in 0..1, written_ok \in BOOLEAN : WriteLog(d, written_ok)
    \/ Exit
    \/ Logout
    \/ Log
    \/ Templates
    \/ \E c \in Answers, t \in Answers : Setup(c, t)
    \/ \E outcome \in FlowOutcomes : AuthPy(outcome)
    \/ Tick

Spec == Init /\ [][Next]_vars

\* ------------------------------------- validators/email_audit.py: log_send

VALIDATOR_ID == "email.audit"

VERSION == "1.0.0"

PrefixLen == 20

\* s[:n]
Take(s, n) == SubSeq(s, 1, Min(Len(s), n))

\* The file name log_send logs under: the local part cut to PrefixLen.
LogSendFileName(tick, recipient) ==
    StrfTime(tick) \o <<"-">> \o Take(SplitFirst(recipient, "@"), PrefixLen)
      \o <<".", "j", "s", "o", "n">>

\* The entry log_send writes.
LogSendEntry(tick, context) ==
    [validator |-> VALIDATOR_ID,
     version |-> VERSION,
     timestamp |-> IsoFormat(tick) \o <<"Z">>,
     to |-> context["to"],
     subject |-> context["subject"],
     status |-> "sent",
     outlook |-> TRUE]

\* ------------------------------------------------------- the gate, called

Z == <<"Z">>

\* Timestamps a caller may hand to validate: what send_email's clock
\* prints, a date alone, a month 13, a doubled Z and a text that is no date.
TimestampTexts ==
    {IsoFormat(t) \o Z : t \in 0..MaxTick}
      \cup {EpochDate,
            <<"2", "0", "2", "4", "-", "1", "3", "-", "0", "1">>,
            IsoFormat(0) \o Z \o Z,
            Hi}

\* A local part of n letters.
LongLocal(n) == [i \in 1..n |-> "a"]

\* A field of a context: <<>> when the key is absent, else <<its value>>.
ToFields == {<<>>, <<Str(<<>>)>>, <<Str(AtX)>>}

\* Recipients handed to log_send: a short local part, one of PrefixLen
\* letters and one a letter longer.
LoggedRecipients ==
    {AtX} \cup {LongLocal(n) \o <<"@", "x">> : n \in {PrefixLen, PrefixLen + 1}}

SubjectFields == {<<>>, <<Str(<<>>)>>, <<Str(Hi)>>}

TimestampFields ==
    {<<>>, <<Str(<<>>)>>, <<IntV(5)>>} \cup {<<Str(t)>> : t \in TimestampTexts}

\* The context dict with the keys that are present.
Context(toF, subjectF, timestampF) ==
    LET fields == [to |-> toF, subject |-> subjectF, timestamp |-> timestampF,
                   body |-> <<Str(Hi)>>]
    IN  [k \in {f \in DOMAIN fields : fields[f] # <<>>} |-> fields[k][1]]

\* A caller of the validator module runs validate(context).
Validate(context) ==
    /\ pc = "idle"
    /\ gate' = <<[context |-> context,
                  dirExists |-> sentExists,
                  result |-> validate(context, sentExists)]>>
    /\ UNCHANGED <<CONFIG_FILE, TOKEN_CACHE, sentExists, sentFiles, now, pc,
                   callVars, result, authed, sends, written, lastCmd, logOut>>

\* A caller of the validator module runs log_send(context, sent/), which
\* returns when the context has both keys, the recipient is a text and the
\* directory exists, and raises before it writes otherwise.
LogSend(context) ==
    /\ pc = "idle"
    /\ {"to", "subject"} \subseteq DOMAIN context
    /\ context["to"].kind = "str"
    /\ sentExists
    /\ sentFiles' = LoggedFiles(LogSendFileName(now, context["to"].val),
                                LogSendEntry(now, context))
    /\ UNCHANGED <<CONFIG_FILE, TOKEN_CACHE, sentExists, now, pc, callVars,
                   result, authed, sends, written, lastCmd, logOut, gate>>

NextGate ==
    \/ \E toF \in ToFields, subjectF \in SubjectFields,
          timestampF \in TimestampFields :
            Validate(Context(toF, subjectF, timestampF))
    \/ \E recipient \in LoggedRecipients :
            LogSend(Context(<<Str(recipient)>>, <<Str(Hi)>>, <<>>))
    \/ Templates

SpecGate == Init /\ [][NextGate]_vars

\* ----------------------------------------------------------------- claims

\* The send context {recipient, subject, body, timestamp} of the running
\* send_email, as the Send Gate would be handed it.
SendContext ==
    Context(<<Str(to)>>, <<Str(subject)>>, <<Str(IsoFormat(now) \o Z)>>)

\* The instant an ISO timestamp of the model's day names, in microseconds.
IsoMicros(ts) ==
    ((Num(SubSeq(ts, 12, 13)) * 60 + Num(SubSeq(ts, 15, 16))) * 60
        + Num(SubSeq(ts, 18, 19))) * 1000000
      + (IF ts[20] = "." THEN Num(SubSeq(ts, 21, 26)) ELSE 0)

\* C1: the network send call is issued only when validate, on the send
\* context assembled for this send, answers pass or warn; on fail nothing
\* is transmitted.
C1_SendOnlyPastGate ==
    posts > 0 => validate(SendContext, sentExists).status \in {"pass", "warn"}

C3_OneRecordPerSend ==
    result = "True" =>
        /\ Cardinality(DOMAIN sentFiles) = Cardinality(DOMAIN sent0) + 1
        /\ Cardinality(DOMAIN sentFiles) = Len(written)

C5_NoSecondExchange == priorAuth => flows = 0

\* C5, amended: such a call finds the cached account and tries the silent
\* path first; a token from the silent path is returned without a
\* device-code exchange, and an exchange is initiated only after the silent
\* path yielded no token.
C5_SilentPathFirst ==
    (priorAuth /\ pc # "idle") =>
        /\ pc = "silent" \/ silent # "not_tried"
        /\ flows > 0 => silent = "none"
        /\ silent = "token" => token = "token" /\ flows = 0

C5_Witness ==
    /\ priorAuth
    /\ pc = "post"
    /\ silent = "token"
    /\ flows = 0

\* Whether field f of the gate's context is absent or empty.
GateMissing(f) ==
    \/ f \notin DOMAIN gate[1].context
    \/ ~Truthy(gate[1].context[f])

GateFails(reason) == gate[1].result = [status |-> "fail", reason |-> reason]

\* C6: gate ordering. validate reports the first failing rule in the order
\* recipient, subject, timestamp present and not empty, then the timestamp
\* parses, then the audit directory exists; a missing recipient is reported
\* whatever the other fields are, and pass is returned exactly when all
\* three rules hold.
C6_GateOrdering ==
    gate # <<>> =>
        LET fieldsOK == ~GateMissing("to") /\ ~GateMissing("subject")
                          /\ ~GateMissing("timestamp")
            parses == fieldsOK /\ TimestampParses(gate[1].context["timestamp"])
        IN  /\ GateMissing("to") =>
                 GateFails(<<"Missing required field: ", "to">>)
            /\ (~GateMissing("to") /\ GateMissing("subject")) =>
                 GateFails(<<"Missing required field: ", "subject">>)
            /\ (~GateMissing("to") /\ ~GateMissing("subject")
                  /\ GateMissing("timestamp")) =>
                 GateFails(<<"Missing required field: ", "timestamp">>)
            /\ (fieldsOK /\ ~parses) => GateFails(<<"Invalid timestamp format">>)
            /\ (parses /\ ~gate[1].dirExists) =>
                 GateFails(<<"Audit directory does not exist">>)
            /\ gate[1].result.status = "pass" <=> (parses /\ gate[1].dirExists)

\* A context without recipient and subject, with a timestamp that does not
\* parse, validated while the audit directory is absent.
C6_Witness ==
    /\ gate # <<>>
    /\ GateMissing("to")
    /\ GateMissing("subject")
    /\ "timestamp" \in DOMAIN gate[1].context
    /\ ~TimestampParses(gate[1].context["timestamp"])
    /\ ~gate[1].dirExists
    /\ GateFails(<<"Missing required field: ", "to">>)

\* C7: what the log command lists is sorted newest-first by send time, is at
\* most LogLimit entries long, and holds every record written so far when
\* they are no more than LogLimit.
C7_NewestFirst ==
    lastCmd = "log" =>
        /\ Len(logOut) <= LogLimit
        /\ \A i, j \in DOMAIN logOut :
             i < j => IsoMicros(logOut[i].timestamp)
                        >= IsoMicros(logOut[j].timestamp)

\* C8: a logout leaves the credential cache absent and ends without error,
\* whether or not a blob was persisted, and changes neither the config nor
\* the audit records.
C8_LogoutClears ==
    [][lastCmd' = "logout" =>
          /\ TOKEN_CACHE' = <<>>
          /\ result' = "ok"
          /\ CONFIG_FILE' = CONFIG_FILE
          /\ sentFiles' = sentFiles]_vars

C8_Witness ==
    /\ lastCmd = "logout"
    /\ TOKEN_CACHE = <<>>
    /\ authed = FALSE
    /\ CONFIG_FILE # <<>>
    /\ sentFiles # EmptyDir

\* C9: the persisted cache is written only by a successful device-code
\* exchange. A call that obtained no token leaves the persisted cache as it
\* was at the call; while a call runs the persisted cache differs from that
\* only once the exchange succeeded; and a token from the exchange is held
\* only with the updated cache already persisted.
C9_CacheWrittenOnSuccess ==
    /\ (pc = "done" /\ token = "") => TOKEN_CACHE = cache0
    /\ (pc # "idle" /\ TOKEN_CACHE # cache0) =>
           token = "token" /\ silent # "token"
    /\ (token = "token" /\ silent # "token") =>
           TOKEN_CACHE = <<cache>> /\ cache # {}

C9_Witness ==
    /\ pc = "done"
    /\ token = ""
    /\ flows = 1
    /\ result = "False"

\* C10: two logged sends to different recipient addresses within the same
\* UTC second have different audit file names, and the record of the
\* earlier one is still what its file holds.
C10_DistinctRecipientsDistinctFiles ==
    \A i, j \in DOMAIN written :
        (/\ i < j
         /\ written[i].entry.to # written[j].entry.to
         /\ SubSeq(written[i].file, 1, 15) = SubSeq(written[j].file, 1, 15))
          => /\ written[i].file # written[j].file
             /\ sentFiles[written[i].file] = written[i].entry

====
